---------------------------- MODULE Spec2Model ----------------------------
(***************************************************************************)
(* Model of src/app.py: the Streamlit script that posts a prompt to the    *)
(* OpenRouter chat-completion API, converts the reported token usage to an *)
(* energy and CO2 estimate and keeps an in-session history of the calls.   *)
(*                                                                         *)
(* One run of the script is one step.  Python values that come out of the  *)
(* JSON body are tagged records (JNull, JInt, JStr, JList, JObj) so that   *)
(* the subscripting and .get calls of call_openrouter_api raise exactly    *)
(* where Python raises.  Floats are exact rationals with a fixed           *)
(* denominator: energy_Wh in 1e-5 Wh, co2_g in 1e-6 g.                     *)
(***************************************************************************)
EXTENDS Integers, Sequences, FiniteSets, TLC

VARIABLES
    history,        \* st.session_state["history"]: the rows of the DataFrame
    api_key,        \* sidebar text input of this run
    prompt,         \* text area of this run
    model,          \* selectbox of this run
    clicked,        \* st.button("Generate & Analyze") returned True in this run
    requested,      \* requests.post was called in this run
    resp,           \* what the remote end answered in this run
    result,         \* what call_openrouter_api returned (or raised) in this run
    ui,             \* the st.warning / st.error / st.success of this run
    view,           \* "info", "dashboard", or "exception" (the run was aborted)
    kpi,            \* total_wh, total_co2_g, total_prompts of the dashboard
    fig_pie,        \* CO2 per model, the slices of the pie chart
    est             \* the call of calculate_energy_co2 made in this run

vars == <<history, api_key, prompt, model, clicked, requested, resp, result,
          ui, view, kpi, fig_pie, est>>

---------------------------------------------------------------------------
(* Bounds *)

MaxHist == 2
MaxEstTokens == 12

---------------------------------------------------------------------------
(* Constants & Configuration *)

\* kg CO2 per kWh = g per Wh, 0.4
US_GRID_CO2_FACTOR == [num |-> 4, den |-> 10]

\* Wh per 1000 tokens, in hundredths
MODEL_ENERGY_FACTORS ==
    [m \in {"deepseek/deepseek-r1-distill-llama-70b:free",
            "openai/gpt-oss-20b:free",
            "google/gemma-3n-e4b-it:free",
            "meta-llama/llama-4-maverick:free",
            "mistralai/mistral-small-24b-instruct-2501:free",
            "qwen/qwen3-14b:free",
            "meta-llama/llama-4-scout:free",
            "default"} |->
        CASE m = "deepseek/deepseek-r1-distill-llama-70b:free" -> 850
          [] m = "openai/gpt-oss-20b:free" -> 271
          [] m = "google/gemma-3n-e4b-it:free" -> 95
          [] m = "meta-llama/llama-4-maverick:free" -> 620
          [] m = "mistralai/mistral-small-24b-instruct-2501:free" -> 380
          [] m = "qwen/qwen3-14b:free" -> 220
          [] m = "meta-llama/llama-4-scout:free" -> 250
          [] OTHER -> 256]

\* list(MODEL_ENERGY_FACTORS.keys())[:-1]
SelectableModels == DOMAIN MODEL_ENERGY_FACTORS \ {"default"}

---------------------------------------------------------------------------
(* Python values *)

JNull == [t |-> "null"]
JInt(n) == [t |-> "int", i |-> n]
JStr(s) == [t |-> "str", s |-> s]
JList(l) == [t |-> "list", l |-> l]
JObj(o) == [t |-> "obj", o |-> o]

EmptyDict == [k \in {} |-> JNull]

Ok(v) == [exc |-> "none", val |-> v]
Raise(e) == [exc |-> e, val |-> JNull]

\* x[k] for a string key k
GetItemStr(x, k) ==
    IF x.t = "obj"
    THEN IF k \in DOMAIN x.o THEN Ok(x.o[k]) ELSE Raise("KeyError")
    ELSE Raise("TypeError")

\* x[0]; the strings of the model are empty or one character long
GetItem0(x) ==
    CASE x.t = "list" -> IF Len(x.l) = 0 THEN Raise("IndexError") ELSE Ok(x.l[1])
      [] x.t = "obj" -> Raise("KeyError")
      [] x.t = "str" -> IF x.s = "" THEN Raise("IndexError") ELSE Ok(x)
      [] OTHER -> Raise("TypeError")

\* x.get(k, d)
DictGet(x, k, d) ==
    IF x.t = "obj"
    THEN Ok(IF k \in DOMAIN x.o THEN x.o[k] ELSE d)
    ELSE Raise("AttributeError")

\* PyAdd that drops the right operand
PyAdd_left_only(a, b) ==
    CASE a.t = "int" /\ b.t = "int" -> Ok(a)
      [] a.t = "str" /\ b.t = "str" -> Ok(a)
      [] a.t = "list" /\ b.t = "list" -> Ok(a)
      [] OTHER -> Raise("TypeError")

\* a + b
PyAdd(a, b) ==
    CASE a.t = "int" /\ b.t = "int" -> Ok(JInt(a.i + b.i))
      [] a.t = "str" /\ b.t = "str" -> Ok(JStr(a.s \o b.s))
      [] a.t = "list" /\ b.t = "list" -> Ok(JList(a.l \o b.l))
      [] OTHER -> Raise("TypeError")

\* PyGtZero with >= for >
PyGeZero(a) ==
    IF a.t = "int" THEN [exc |-> "none", val |-> a.i >= 0]
    ELSE [exc |-> "TypeError", val |-> FALSE]

\* a > 0
PyGtZero(a) ==
    IF a.t = "int" THEN [exc |-> "none", val |-> a.i > 0]
    ELSE [exc |-> "TypeError", val |-> FALSE]


---------------------------------------------------------------------------
(* Helper Functions *)

\* return output_text, input_tokens, output_tokens, total_tokens
Returned(text, in_tokens, out_tokens, total_tokens) ==
    [status |-> "return", msg |-> "none", exc |-> "none",
     output_text |-> text, input_tokens |-> in_tokens,
     output_tokens |-> out_tokens, total_tokens |-> total_tokens]

\* st.error(...); return "", 0, 0, 0
Failed(msg, exc) ==
    [status |-> "return", msg |-> msg, exc |-> exc,
     output_text |-> JStr(""), input_tokens |-> JInt(0),
     output_tokens |-> JInt(0), total_tokens |-> JInt(0)]

\* an exception no except clause of the function matches
Propagated(exc) ==
    [status |-> "raise", msg |-> "none", exc |-> exc,
     output_text |-> JNull, input_tokens |-> JNull,
     output_tokens |-> JNull, total_tokens |-> JNull]

NoResult ==
    [status |-> "not_called", msg |-> "none", exc |-> "none",
     output_text |-> JNull, input_tokens |-> JNull,
     output_tokens |-> JNull, total_tokens |-> JNull]

\* The exceptions of requests.post, raise_for_status and response.json are
\* all requests.exceptions.RequestException (JSONDecodeError included).
RequestException == {"ConnectionError", "Timeout", "HTTPError", "JSONDecodeError"}

\* ExceptClauses without the RequestException clause
ExceptClauses_no_request_clause(exc) ==
    CASE exc \in {"KeyError", "IndexError"} -> Failed("error_parse", exc)
      [] OTHER -> Propagated(exc)

\* the except clauses of call_openrouter_api
ExceptClauses(exc) ==
    CASE exc \in RequestException -> Failed("error_api", exc)
      [] exc \in {"KeyError", "IndexError"} -> Failed("error_parse", exc)
      [] OTHER -> Propagated(exc)

\* the body of the try block once response.json() has produced data
ParseData(data) ==
    LET choices == GetItemStr(data, "choices")
        first == IF choices.exc = "none" THEN GetItem0(choices.val) ELSE choices
        message == IF first.exc = "none" THEN GetItemStr(first.val, "message") ELSE first
        output_text ==
            IF message.exc = "none" THEN GetItemStr(message.val, "content") ELSE message
        usage == DictGet(data, "usage", JObj(EmptyDict))
        input_tokens ==
            IF usage.exc = "none" THEN DictGet(usage.val, "prompt_tokens", JInt(0)) ELSE usage
        output_tokens ==
            IF usage.exc = "none" THEN DictGet(usage.val, "completion_tokens", JInt(0)) ELSE usage
        sum == PyAdd(input_tokens.val, output_tokens.val)
        total_tokens == DictGet(usage.val, "total_tokens", sum.val)
    IN  IF output_text.exc # "none" THEN ExceptClauses(output_text.exc)
        ELSE IF usage.exc # "none" THEN ExceptClauses(usage.exc)
        ELSE IF input_tokens.exc # "none" THEN ExceptClauses(input_tokens.exc)
        ELSE IF output_tokens.exc # "none" THEN ExceptClauses(output_tokens.exc)
        ELSE IF sum.exc # "none" THEN ExceptClauses(sum.exc)
        ELSE Returned(output_text.val, input_tokens.val,
                      output_tokens.val, total_tokens.val)

call_openrouter_api(r) ==
    IF r.kind = "json" THEN ParseData(r.body) ELSE ExceptClauses(r.kind)

\* calculate_energy_co2 with .get(model_name, 0)
calculate_energy_co2_no_default(tokens, model_name) ==
    LET energy_per_1k_tokens_wh ==
            IF model_name \in DOMAIN MODEL_ENERGY_FACTORS
            THEN MODEL_ENERGY_FACTORS[model_name]
            ELSE 0
        energy == tokens * energy_per_1k_tokens_wh
        co2 == energy * US_GRID_CO2_FACTOR.num
    IN  [energy |-> energy, co2 |-> co2]

\* energy in 1e-5 Wh, co2 in 1e-6 g
calculate_energy_co2(tokens, model_name) ==
    LET energy_per_1k_tokens_wh ==
            IF model_name \in DOMAIN MODEL_ENERGY_FACTORS
            THEN MODEL_ENERGY_FACTORS[model_name]
            ELSE MODEL_ENERGY_FACTORS["default"]
        energy == tokens * energy_per_1k_tokens_wh
        co2 == energy * US_GRID_CO2_FACTOR.num
    IN  [energy |-> energy, co2 |-> co2]

---------------------------------------------------------------------------
(* Main Application Logic *)

\* NewEntry with the id taken 0-based
NewEntry_id_from_zero(h, m, p, res, e) ==
    [id |-> Len(h),
     model |-> m,
     prompt |-> p,
     input_tokens |-> res.input_tokens,
     output_tokens |-> res.output_tokens,
     total_tokens |-> res.total_tokens,
     energy_Wh |-> e.energy,
     co2_g |-> e.co2,
     response |-> res.output_text]

\* the row of new_entry
NewEntry(h, m, p, res, e) ==
    [id |-> Len(h) + 1,
     model |-> m,
     prompt |-> p,
     input_tokens |-> res.input_tokens,
     output_tokens |-> res.output_tokens,
     total_tokens |-> res.total_tokens,
     energy_Wh |-> e.energy,
     co2_g |-> e.co2,
     response |-> res.output_text]

\* concat with the operands swapped
concat_new_first(h, new_entry) == new_entry \o h

\* pd.concat([history, new_entry], ignore_index=True)
concat(h, new_entry) == h \o new_entry

NoEst == [called |-> FALSE, tokens |-> 0, model_name |-> "default",
          energy |-> 0, co2 |-> 0]

Called(tokens, model_name) ==
    LET e == calculate_energy_co2(tokens, model_name)
    IN  [called |-> TRUE, tokens |-> tokens, model_name |-> model_name,
         energy |-> e.energy, co2 |-> e.co2]

\* InputCheck without the elif on the prompt
InputCheck_no_prompt_check(k, p) ==
    IF k = "" THEN "warning_api_key" ELSE "call"

\* if not api_key: ... elif not prompt: ... else:
InputCheck(k, p) ==
    IF k = "" THEN "warning_api_key"
    ELSE IF p = "" THEN "warning_prompt"
    ELSE "call"

\* The block under st.button: what the run leaves in the session state, what
\* it showed, and whether an exception ended the run before the display.
ButtonBlock(h, k, p, m, r) ==
    IF InputCheck(k, p) # "call" THEN
        [history |-> h, requested |-> FALSE, result |-> NoResult,
         ui |-> InputCheck(k, p), aborted |-> FALSE, est |-> NoEst]
    ELSE
        LET res == call_openrouter_api(r)
            positive == PyGtZero(res.total_tokens)
        IN  IF res.status = "raise" THEN
                [history |-> h, requested |-> TRUE, result |-> res,
                 ui |-> "none", aborted |-> TRUE, est |-> NoEst]
            ELSE IF positive.exc # "none" THEN
                [history |-> h, requested |-> TRUE, result |-> res,
                 ui |-> res.msg, aborted |-> TRUE, est |-> NoEst]
            ELSE IF positive.val THEN
                LET e == Called(res.total_tokens.i, m)
                IN  [history |-> concat(h, <<NewEntry(h, m, p, res, e)>>),
                     requested |-> TRUE, result |-> res,
                     ui |-> "success", aborted |-> FALSE, est |-> e]
            ELSE
                [history |-> h, requested |-> TRUE, result |-> res,
                 ui |-> res.msg, aborted |-> FALSE, est |-> NoEst]

---------------------------------------------------------------------------
(* Display Results *)

\* st.session_state["history"].copy()
Copy(h) == [i \in 1..Len(h) |-> h[i]]

RECURSIVE ColumnSum(_, _)
\* df[col].sum()
ColumnSum(df, col) ==
    IF Len(df) = 0 THEN 0
    ELSE df[1][col] + ColumnSum(Tail(df), col)

\* the rows of df whose model is name
RowsOf(df, name) == SelectSeq(df, LAMBDA row : row.model = name)

\* px.pie(df, names="model", values="co2_g"): one slice per distinct name
Pie(df) ==
    [name \in {df[i].model : i \in 1..Len(df)} |->
        ColumnSum(RowsOf(df, name), "co2_g")]

NoKpi == [total_wh |-> 0, total_co2_g |-> 0, total_prompts |-> 0]
NoPie == [name \in {} |-> 0]

\* Kpi with total_co2_g summed over the energy column
Kpi_co2_from_energy(df) ==
    [total_wh |-> ColumnSum(df, "energy_Wh"),
     total_co2_g |-> ColumnSum(df, "energy_Wh"),
     total_prompts |-> Len(df)]

Kpi(df) ==
    [total_wh |-> ColumnSum(df, "energy_Wh"),
     total_co2_g |-> ColumnSum(df, "co2_g"),
     total_prompts |-> Len(df)]

\* the display section of a run that reached it
Display(h) ==
    IF Len(h) > 0
    THEN LET df == Copy(h)
         IN  [view |-> "dashboard", kpi |-> Kpi(df), fig_pie |-> Pie(df)]
    ELSE [view |-> "info", kpi |-> NoKpi, fig_pie |-> NoPie]

\* a run an exception ended: Streamlit shows the exception, nothing else
Aborted == [view |-> "exception", kpi |-> NoKpi, fig_pie |-> NoPie]

---------------------------------------------------------------------------
(* Inputs *)

ApiKeys == {"", "k"}
Prompts == {"", "Q"}
Models == SelectableModels \cap {"openai/gpt-oss-20b:free", "qwen/qwen3-14b:free"}

PromptTokenValues == {0, 100}
CompletionTokenValues == {0, 50}
TotalTokenValues == {0, 75}

Choices(content) == JList(<<JObj([message |-> JObj([content |-> content])])>>)

UsageNoTotal(p, c) == JObj([prompt_tokens |-> p, completion_tokens |-> c])
UsageTotal(p, c, t) ==
    JObj([prompt_tokens |-> p, completion_tokens |-> c, total_tokens |-> t])

GoodUsage == UsageNoTotal(JInt(100), JInt(50))

\* bodies of the documented shape
WellFormed ==
    {JObj([choices |-> Choices(JStr("A")), usage |-> UsageNoTotal(JInt(p), JInt(c))]) :
        p \in PromptTokenValues, c \in CompletionTokenValues}
    \cup
    {JObj([choices |-> Choices(JStr("A")), usage |-> UsageTotal(JInt(p), JInt(c), JInt(t))]) :
        p \in PromptTokenValues, c \in CompletionTokenValues, t \in TotalTokenValues}

\* JSON bodies whose text part is missing or of another type
BadChoices ==
    {JNull, JList(<<>>), JStr("A"), JObj(EmptyDict)}
    \cup
    {JObj([usage |-> GoodUsage])}
    \cup
    {JObj([choices |-> ch, usage |-> GoodUsage]) :
        ch \in {JNull, JList(<<>>), JObj(EmptyDict), JStr(""), JStr("A"),
                JList(<<JNull>>), JList(<<JObj(EmptyDict)>>),
                JList(<<JObj([message |-> JNull])>>),
                JList(<<JObj([message |-> JStr("A")])>>),
                JList(<<JObj([message |-> JObj(EmptyDict)])>>),
                Choices(JNull)}}

\* JSON bodies whose usage part is missing or of another type
BadUsage ==
    {JObj([choices |-> Choices(JStr("A"))])}
    \cup
    {JObj([choices |-> Choices(JStr("A")), usage |-> u]) :
        u \in {JNull, JList(<<>>), JObj(EmptyDict),
               JObj([prompt_tokens |-> JInt(100)]),
               JObj([completion_tokens |-> JInt(50)]),
               JObj([total_tokens |-> JInt(75)]),
               UsageNoTotal(JNull, JInt(50)),
               UsageTotal(JInt(100), JNull, JInt(75)),
               UsageNoTotal(JStr("a"), JStr("b")),
               UsageTotal(JStr("a"), JStr("b"), JInt(75)),
               UsageTotal(JInt(100), JInt(50), JNull),
               UsageTotal(JInt(100), JInt(50), JStr("a"))}}

Bodies == WellFormed \cup BadChoices \cup BadUsage

NoResp == [kind |-> "none", body |-> JNull]

\* what the remote end can answer to one request
Responses ==
    {[kind |-> e, body |-> JNull] : e \in RequestException}
    \cup {[kind |-> "json", body |-> b] : b \in Bodies}

\* a request is answered only if it is sent
Answers(k, p) == IF InputCheck(k, p) = "call" THEN Responses ELSE {NoResp}

---------------------------------------------------------------------------
(* The session *)

Init ==
    /\ history = <<>>
    /\ api_key = ""
    /\ prompt = ""
    /\ model = "openai/gpt-oss-20b:free"
    /\ clicked = FALSE
    /\ requested = FALSE
    /\ resp = NoResp
    /\ result = NoResult
    /\ ui = "none"
    /\ view = "info"
    /\ kpi = NoKpi
    /\ fig_pie = NoPie
    /\ est = NoEst

\* one run of the script with the button pressed
GenerateAndAnalyze(k, p, m, r) ==
    /\ Len(history) < MaxHist
    /\ \E b \in {ButtonBlock(history, k, p, m, r)} :
       \E d \in {IF b.aborted THEN Aborted ELSE Display(b.history)} :
           /\ history' = b.history
           /\ api_key' = k
           /\ prompt' = p
           /\ model' = m
           /\ clicked' = TRUE
           /\ requested' = b.requested
           /\ resp' = IF b.requested THEN r ELSE NoResp
           /\ result' = b.result
           /\ ui' = b.ui
           /\ est' = b.est
           /\ view' = d.view
           /\ kpi' = d.kpi
           /\ fig_pie' = d.fig_pie

\* one run of the script caused by another widget: the button is not pressed
Rerun(k, p, m) ==
    \E d \in {Display(history)} :
        /\ api_key' = k
        /\ prompt' = p
        /\ model' = m
        /\ clicked' = FALSE
        /\ requested' = FALSE
        /\ resp' = NoResp
        /\ result' = NoResult
        /\ ui' = "none"
        /\ est' = NoEst
        /\ view' = d.view
        /\ kpi' = d.kpi
        /\ fig_pie' = d.fig_pie
        /\ UNCHANGED history

Next ==
    \/ \E k \in ApiKeys, p \in Prompts, m \in Models :
          \E r \in Answers(k, p) : GenerateAndAnalyze(k, p, m, r)
    \/ \E k \in ApiKeys, p \in Prompts, m \in Models : Rerun(k, p, m)

Spec == Init /\ [][Next]_vars

---------------------------------------------------------------------------
(* calculate_energy_co2 on its own: the inputs are drawn by the initial     *)
(* state and the one action applies the function to them.                  *)

EstModels == DOMAIN MODEL_ENERGY_FACTORS \cup {"unknown/model"}

InitEnergy ==
    /\ history = <<>>
    /\ api_key = ""
    /\ prompt = ""
    /\ model = "openai/gpt-oss-20b:free"
    /\ clicked = FALSE
    /\ requested = FALSE
    /\ resp = NoResp
    /\ result = NoResult
    /\ ui = "none"
    /\ view = "info"
    /\ kpi = NoKpi
    /\ fig_pie = NoPie
    /\ est \in {[called |-> FALSE, tokens |-> n, model_name |-> m,
                 energy |-> 0, co2 |-> 0] :
                    n \in 0..MaxEstTokens, m \in EstModels}

Estimate ==
    /\ ~est.called
    /\ est' = Called(est.tokens, est.model_name)
    /\ UNCHANGED <<history, api_key, prompt, model, clicked, requested, resp,
                   result, ui, view, kpi, fig_pie>>

NextEnergy == Estimate

SpecEnergy == InitEnergy /\ [][NextEnergy]_vars

---------------------------------------------------------------------------
(* Properties *)

IsPrefix(a, b) == Len(a) <= Len(b) /\ SubSeq(b, 1, Len(a)) = a

Last(h) == h[Len(h)]

TransportFailures == {"ConnectionError", "Timeout", "HTTPError"}

\* the call came back with a text and counters, no error shown
Success(res) == res.status = "return" /\ res.msg = "none"

PositiveTotal(res) == res.total_tokens.t = "int" /\ res.total_tokens.i > 0

\* C1: the n-th record of the history has id = n, whatever submissions
\* (successful, failed, rejected) came before it.
C1_SequentialIds ==
    \A n \in 1..Len(history) : history[n].id = n

C1_Witness ==
    /\ Len(history) >= 2
    /\ ui = "success"
    /\ Last(history).id = Len(history)

\* C2: a submission appends exactly one record if the call succeeded with
\* total_tokens > 0 and leaves the history unchanged otherwise; every record
\* of the history has total_tokens > 0.
C2_AppendOnlyOnPositiveSuccess ==
    /\ [](\A n \in 1..Len(history) :
            history[n].total_tokens.t = "int" /\ history[n].total_tokens.i > 0)
    /\ [][IF clicked' /\ Success(result') /\ PositiveTotal(result')
          THEN Len(history') = Len(history) + 1 /\ IsPrefix(history, history')
          ELSE history' = history]_vars

C2_Witness ==
    /\ clicked
    /\ Success(result)
    /\ result.total_tokens = JInt(0)
    /\ ui = "none"
    /\ Len(history) >= 1

\* C3: a connection error, a timeout or a non-2xx status is reported as a
\* failed API call and the submission leaves the history as it was.
C3_TransportFailureKeepsHistory ==
    [][clicked' /\ requested' /\ resp'.kind \in TransportFailures
        => /\ result'.msg = "error_api"
           /\ ui' = "error_api"
           /\ history' = history]_vars

C3_Witness ==
    /\ clicked
    /\ resp.kind = "Timeout"
    /\ ui = "error_api"
    /\ Len(history) >= 1

IsInt(b, k) == k \in DOMAIN b.o /\ b.o[k].t = "int"

\* the body has choices[0].message.content and usage.prompt_tokens,
\* usage.completion_tokens, each of the documented type
ExpectedShape(b) ==
    /\ b.t = "obj"
    /\ "choices" \in DOMAIN b.o
    /\ b.o["choices"].t = "list"
    /\ Len(b.o["choices"].l) > 0
    /\ b.o["choices"].l[1].t = "obj"
    /\ "message" \in DOMAIN b.o["choices"].l[1].o
    /\ b.o["choices"].l[1].o["message"].t = "obj"
    /\ "content" \in DOMAIN b.o["choices"].l[1].o["message"].o
    /\ b.o["choices"].l[1].o["message"].o["content"].t = "str"
    /\ "usage" \in DOMAIN b.o
    /\ b.o["usage"].t = "obj"
    /\ IsInt(b.o["usage"], "prompt_tokens")
    /\ IsInt(b.o["usage"], "completion_tokens")

\* C4: a 2xx JSON body with an expected field missing or malformed is
\* reported as a parse error and creates no history entry.
C4_MalformedIsParseError ==
    [][clicked' /\ requested' /\ resp'.kind = "json" /\ ~ExpectedShape(resp'.body)
        => /\ result'.msg = "error_parse"
           /\ ui' = "error_parse"
           /\ history' = history]_vars

\* C5: whatever the remote call produced, call_openrouter_api returns (with
\* a classified message when it failed) and no exception ends the run.
C5_NoUnhandledFault ==
    /\ result.status # "raise"
    /\ view # "exception"
    /\ (clicked /\ requested /\ resp.kind # "json" => ui \in {"error_api", "error_parse"})

\* C6: a submission with an empty key, or with a key and an empty prompt,
\* sends no request, shows the matching warning and keeps the history.
C6_MissingInputSendsNothing ==
    [][clicked' /\ (api_key' = "" \/ prompt' = "")
        => /\ ~requested'
           /\ result'.status = "not_called"
           /\ ui' = (IF api_key' = "" THEN "warning_api_key" ELSE "warning_prompt")
           /\ history' = history]_vars

C6_Witness ==
    /\ clicked
    /\ api_key # ""
    /\ prompt = ""
    /\ ui = "warning_prompt"
    /\ ~requested
    /\ Len(history) >= 1

\* C7: the history starts empty and every run leaves the history it found
\* as a prefix of the history it leaves.
C7_AppendOnly ==
    /\ history = <<>>
    /\ [][IsPrefix(history, history')]_vars

C7_Witness ==
    /\ Len(history) >= 2
    /\ view = "dashboard"
    /\ history[1].id = 1

\* the value of usage.get(k, 0) for an absent or integer field
FieldOrZero(u, k) == IF k \in DOMAIN u.o THEN u.o[k].i ELSE 0

\* the usage object is there, has no total_tokens, and its two counters are
\* integers where present
UsageWithoutTotal(b) ==
    /\ b.t = "obj"
    /\ "usage" \in DOMAIN b.o
    /\ b.o["usage"].t = "obj"
    /\ "total_tokens" \notin DOMAIN b.o["usage"].o
    /\ \A k \in {"prompt_tokens", "completion_tokens"} :
            k \in DOMAIN b.o["usage"].o => b.o["usage"].o[k].t = "int"

\* C8: with no total_tokens in the usage object the call reports
\* prompt_tokens + completion_tokens, and the record appended from it has
\* total_tokens = input_tokens + output_tokens.
C8_TotalDefaultsToSum ==
    clicked /\ requested /\ resp.kind = "json" /\ Success(result)
        /\ UsageWithoutTotal(resp.body)
    => /\ result.total_tokens =
            JInt(FieldOrZero(resp.body.o["usage"], "prompt_tokens")
                 + FieldOrZero(resp.body.o["usage"], "completion_tokens"))
       /\ ui = "success" =>
            Last(history).total_tokens.i =
                Last(history).input_tokens.i + Last(history).output_tokens.i

C8_Witness ==
    /\ clicked
    /\ resp.kind = "json"
    /\ UsageWithoutTotal(resp.body)
    /\ resp.body.o["usage"] = UsageNoTotal(JInt(100), JInt(50))
    /\ result.total_tokens = JInt(150)
    /\ ui = "success"
    /\ Last(history).total_tokens = JInt(150)

\* C9: for tokens >= 0 and any model name the estimate is
\* energy = tokens/1000 * c and co2 = energy * 0.4, c the table entry of the
\* model or the default 2.56 for a model not in the table; both are >= 0
\* and are 0 for 0 tokens.
C9_EnergyEstimate ==
    est.called =>
        /\ est.model_name \in DOMAIN MODEL_ENERGY_FACTORS
            => est.energy = est.tokens * MODEL_ENERGY_FACTORS[est.model_name]
        /\ est.model_name \notin DOMAIN MODEL_ENERGY_FACTORS
            => est.energy = est.tokens * 256
        \* co2 / 1e6 = (energy / 1e5) * (4 / 10), both sides times 1e6
        /\ est.co2 = est.energy * 4
        /\ est.energy >= 0
        /\ est.co2 >= 0
        /\ est.tokens = 0 => est.energy = 0 /\ est.co2 = 0

C9_Witness ==
    /\ est.called
    /\ est.model_name \notin DOMAIN MODEL_ENERGY_FACTORS
    /\ est.tokens > 0
    /\ est.energy > 0

RECURSIVE SumUpTo(_, _, _)
\* field col of the first n records, added up
SumUpTo(h, n, col) ==
    IF n = 0 THEN 0 ELSE SumUpTo(h, n - 1, col) + h[n][col]

RECURSIVE SumOfSlices(_, _)
SumOfSlices(f, S) ==
    IF S = {} THEN 0
    ELSE LET x == CHOOSE y \in S : TRUE
         IN  f[x] + SumOfSlices(f, S \ {x})

\* C10: on the dashboard of a non-empty history total_wh and total_co2_g
\* are the sums of energy_Wh and co2_g over the records, and the pie has one
\* slice per model of the history, the slices adding up to total_co2_g.
C10_AggregatesAgree ==
    /\ view = "dashboard" =>
        /\ Len(history) > 0
        /\ kpi.total_wh = SumUpTo(history, Len(history), "energy_Wh")
        /\ kpi.total_co2_g = SumUpTo(history, Len(history), "co2_g")
        /\ DOMAIN fig_pie = {history[n].model : n \in 1..Len(history)}
        /\ SumOfSlices(fig_pie, DOMAIN fig_pie) = kpi.total_co2_g
    /\ Len(history) > 0 /\ view # "exception" => view = "dashboard"

C10_Witness ==
    /\ view = "dashboard"
    /\ Len(history) = 2
    /\ Cardinality(DOMAIN fig_pie) = 2
    /\ kpi.total_co2_g = history[1].co2_g + history[2].co2_g

=============================================================================
